---- MODULE Spec2Model ----
(***************************************************************************)
(* rtutil: the lock-free single-producer/single-consumer CircularBuffer    *)
(* (circular_buffer.hh) and the power-of-two rounding it is built on.      *)
(*                                                                         *)
(* Two representations of std::size_t are used.  next_pow2 and is_pow2     *)
(* work on the full 64-bit width, so a value is the set of the positions   *)
(* of its 1 bits (a subset of 0..63): bitwise AND is set intersection and  *)
(* a shift moves a position.  The heads and sizes of a constructed buffer  *)
(* are small, so they are plain naturals; Bits and Value convert.          *)
(* next_pow2 is the C++20 branch (std::countl_zero), the one the build     *)
(* selects (CMAKE_CXX_STANDARD 20).                                        *)
(*                                                                         *)
(* enqueue and dequeue run as three steps each: the loads of the heads,    *)
(* the copies, and the store of the caller's own head.  accepted and       *)
(* delivered record what the calls reported when they returned.           *)
(*                                                                         *)
(* PlaybackProcess (play_audio_file.cc) and RecordProcess                  *)
(* (record_audio_file.cc) run an IO thread and the audio callback on one   *)
(* such buffer; their steps are modelled after the buffer's.  The sizes    *)
(* are scaled down: one channel, frame_size 1, and a playback queue of     *)
(* 2 to QueueScale staging buffers per BUFFER_FACTOR (the source has 128). *)
(***************************************************************************)
EXTENDS Integers, Sequences, FiniteSets, TLC

VARIABLES
    requested,      \* the constructor's argument (kept for the claims)
    buffer_,        \* std::vector<DataType> buffer_ (element i is buffer_[i+1])
    read_head_,     \* std::atomic<std::size_t> read_head_
    write_head_,    \* std::atomic<std::size_t> write_head_
    p_pc,           \* producer: position inside enqueue
    p_src,          \* producer: the src block of the running/last enqueue
    p_read_start,   \* producer: enqueue's local read_start
    p_write_start,  \* producer: enqueue's local write_start
    p_ret,          \* producer: value returned by the last enqueue
    p_wa,           \* get_write_available() in the state enqueue was called in
    c_pc,           \* consumer: position inside dequeue
    c_size,         \* consumer: the size argument of the running/last dequeue
    c_dst,          \* consumer: the dst block of the running/last dequeue
    c_read_start,   \* consumer: dequeue's local read_start
    c_write_start,  \* consumer: dequeue's local write_start
    c_ret,          \* consumer: value returned by the last dequeue
    c_ra,           \* get_read_available() in the state dequeue was called in
    next_val,       \* number of sample values handed to enqueue so far
    accepted,       \* every element enqueue reported as written, in order
    delivered,      \* every element dequeue reported as read, in order
    phase,          \* position of the sequential scenarios' script
    np_z,           \* argument of a direct next_pow2 call
    np_ret,         \* its result
    channels,       \* file_.channels() of the process's sound file
    frame_size,     \* the frame_size argument of the process's constructor
    n_frame,        \* the frame count the audio driver passes to the callback
    file_io_buffer_,\* std::vector<float> file_io_buffer_ (the staging buffer)
    file_io_lock_,  \* std::mutex file_io_lock_: "free", or "io" while held
    io_counter_,    \* std::size_t io_counter_
    io_pc,          \* IO thread: position inside start()
    cb_pc,          \* audio thread: position inside the callback
    file_frames,    \* playback: file_.frames(), the length of the file
    file_out,       \* capture: every sample file_.writef has written, in order
    output          \* playback: the output block of the running/last callback

ring_vars == <<buffer_, read_head_, write_head_>>
prod_vars == <<p_pc, p_src, p_read_start, p_write_start, p_ret, p_wa>>
cons_vars == <<c_pc, c_size, c_dst, c_read_start, c_write_start, c_ret, c_ra>>
hist_vars == <<next_val, accepted, delivered>>
pow2_vars == <<np_z, np_ret>>
stream_vars == <<channels, frame_size, n_frame, file_io_buffer_, file_io_lock_,
                 io_counter_, io_pc, cb_pc, file_frames, file_out, output>>
vars == <<requested, ring_vars, prod_vars, cons_vars, hist_vars, phase, pow2_vars,
          stream_vars>>

---------------------------------------------------------------------------
(* Bounds of the model. *)

\* largest capacity argument given to the constructor
MaxRequested == 4
\* total number of sample values offered to enqueue, and requested from dequeue
MaxItems == 6
\* number of low bit positions varied in the arguments of next_pow2
LowBits == 2

---------------------------------------------------------------------------
(* std::size_t, full width. *)

\* std::numeric_limits<std::size_t>::digits
n_bits == 64

BitPos == 0 .. (n_bits - 1)

Max(S) == CHOOSE x \in S : \A y \in S : y <= x
Min(S) == CHOOSE x \in S : \A y \in S : x <= y
MinOf(a, b) == IF a <= b THEN a ELSE b

RECURSIVE Pow2(_)
Pow2(k) == IF k = 0 THEN 1 ELSE 2 * Pow2(k - 1)

\* the bit set of a small natural
Bits(n) == {i \in 0 .. 30 : (n \div Pow2(i)) % 2 = 1}

\* the natural a bit set stands for (small values only)
RECURSIVE Value(_)
Value(z) == IF z = {} THEN 0 ELSE LET m == Max(z) IN Pow2(m) + Value(z \ {m})

\* a <= b, as unsigned numbers
SizeLeq(a, b) == a = b \/ Max((a \ b) \cup (b \ a)) \in b

\* z - 1U (unsigned, wraps at zero)
SizeDec(z) ==
    IF z = {} THEN BitPos
    ELSE LET m == Min(z) IN (z \ {m}) \cup {i \in BitPos : i < m}

\* std::countl_zero(z)
countl_zero(z) == IF z = {} THEN n_bits ELSE (n_bits - 1) - Max(z)

\* std::size_t(1U) << s.  A shift by the full width or more is undefined:
\* the hardware masks the count (giving 1), a folded constant gives 0.
ShiftLeftOne(s) == IF s < n_bits THEN {{s}} ELSE {{}, {0}}

is_pow2(z) ==
    IF z # {} THEN (z \cap SizeDec(z)) = {}
    ELSE FALSE

\* Faulty variant for mutation testing: the shift is by lg2 instead of lg2 + 1
next_pow2_round_down(z) ==
    IF SizeLeq(z, Bits(2)) THEN {Bits(2)}
    ELSE IF is_pow2(z) THEN {z}
    ELSE LET lg2 == (n_bits - 1) - countl_zero(z)
         IN  ShiftLeftOne(lg2)
\* The set of values next_pow2(z) can return (one value, except where the
\* shift is undefined).
next_pow2(z) ==
    IF SizeLeq(z, Bits(2)) THEN {Bits(2)}
    ELSE IF is_pow2(z) THEN {z}
    ELSE LET lg2 == (n_bits - 1) - countl_zero(z)
         IN  ShiftLeftOne(lg2 + 1)

---------------------------------------------------------------------------
(* CircularBuffer *)

\* x & y on small naturals
RECURSIVE BitAnd(_, _)
BitAnd(x, y) ==
    IF x = 0 \/ y = 0 THEN 0
    ELSE (x % 2) * (y % 2) + 2 * BitAnd(x \div 2, y \div 2)

\* the value-initialised storage of a vector of n elements
Zeros(n) == [i \in 1 .. n |-> 0]

\* Faulty variant for mutation testing: the capacity is not rounded up
CircularBuffer_unrounded(cap) == {Zeros(cap)}
\* CircularBuffer(std::size_t capacity): the storages construction can give
CircularBuffer(cap) == {Zeros(Value(c)) : c \in next_pow2(Bits(cap))}

capacity == Len(buffer_)

compute_read_available(read_head, write_head, cap) ==
    LET mask == cap - 1
    IN  IF write_head > read_head
        THEN write_head - read_head
        ELSE BitAnd(cap - write_head + read_head, mask)

\* Faulty variant for mutation testing: the reserved slot is forgotten
compute_write_available_no_reserve(read_head, write_head, cap) ==
    cap - compute_read_available(read_head, write_head, cap)
compute_write_available(read_head, write_head, cap) ==
    cap - compute_read_available(read_head, write_head, cap) - 1

get_read_available == compute_read_available(read_head_, write_head_, capacity)
get_write_available == compute_write_available(read_head_, write_head_, capacity)

\* std::copy(from + first, from + last, to + at), offsets counted from 0
std_copy(from, first, last, to, at) ==
    [i \in DOMAIN to |->
        IF (i - 1) >= at /\ (i - 1) < at + (last - first)
        THEN from[first + (i - 1 - at) + 1]
        ELSE to[i]]

(* enqueue: the locals, as functions of what the producer has loaded *)
\* Faulty variant for mutation testing: the block is not clipped to the free space
enq_write_size_unclipped == Len(p_src)
enq_write_size ==
    MinOf(Len(p_src), compute_write_available(p_read_start, p_write_start, capacity))
enq_write_end == p_write_start + enq_write_size
enq_cnt_hi == capacity - p_write_start
enq_cnt_lo == BitAnd(enq_write_end, capacity - 1)

\* Faulty variant for mutation testing: the span is copied in one piece, the part past the end is lost
enqueue_copy_no_wrap == std_copy(p_src, 0, enq_write_size, buffer_, p_write_start)
\* the storage after enqueue's copies
enqueue_copy ==
    IF enq_write_end > capacity
    THEN std_copy(p_src, enq_cnt_hi, enq_write_size,
                  std_copy(p_src, 0, enq_cnt_hi, buffer_, p_write_start), 0)
    ELSE std_copy(p_src, 0, enq_write_size, buffer_, p_write_start)

(* dequeue: the locals, as functions of what the consumer has loaded *)
deq_read_size ==
    MinOf(c_size, compute_read_available(c_read_start, c_write_start, capacity))
deq_read_end == c_read_start + deq_read_size
deq_cnt_hi == capacity - c_read_start
deq_cnt_lo == BitAnd(deq_read_end, capacity - 1)

\* Faulty variant for mutation testing: the low segment is copied to the start of dst
dequeue_copy_low_at_start(store) ==
    IF deq_read_end > capacity
    THEN std_copy(store, 0, deq_cnt_lo,
                  std_copy(store, c_read_start, capacity, c_dst, 0), 0)
    ELSE std_copy(store, c_read_start, c_read_start + deq_read_size, c_dst, 0)
\* dst after dequeue's copies, reading the storage as `store`
dequeue_copy(store) ==
    IF deq_read_end > capacity
    THEN std_copy(store, 0, deq_cnt_lo,
                  std_copy(store, c_read_start, capacity, c_dst, 0), deq_cnt_hi)
    ELSE std_copy(store, c_read_start, c_read_start + deq_read_size, c_dst, 0)

\* The storage positions (from 0) dequeue's copies read.
deq_read_slots == {BitAnd(c_read_start + i, capacity - 1) : i \in 0 .. deq_read_size - 1}

\* Storage positions the producer is writing while the consumer reads them:
\* enqueue has loaded the heads and not yet finished its copies.  The two
\* plain accesses are unordered (a data race), so a read of such a slot
\* gives the old or the new element.
racy_slots ==
    IF p_pc = "copy"
    THEN {s \in deq_read_slots : enqueue_copy[s + 1] # buffer_[s + 1]}
    ELSE {}

\* the storage as a consumer sees it that reads the slots of S after the
\* producer's write and the others before it
torn_view(S) == [i \in DOMAIN buffer_ |-> IF (i - 1) \in S THEN enqueue_copy[i] ELSE buffer_[i]]

---------------------------------------------------------------------------
(* The producer thread: one enqueue at a time. *)

\* a dst element dequeue has not written
Unwritten == 0 - 1

\* the next n freshly generated sample values
fresh(n) == [i \in 1 .. n |-> next_val + i]

\* enqueue(src, size), lines 222-223: the loads of the two heads.  The load
\* of read_head_ is the one the consumer can interfere with.
EnqueueLoad(n) ==
    /\ p_pc = "idle"
    /\ p_pc' = "copy"
    /\ p_src' = fresh(n)
    /\ p_read_start' = read_head_
    /\ p_write_start' = write_head_
    /\ p_wa' = get_write_available
    /\ next_val' = next_val + n
    /\ UNCHANGED <<requested, ring_vars, p_ret, cons_vars, accepted,
                   delivered>>

\* lines 224-244: the segment sizes and the copies into the storage
EnqueueCopy ==
    /\ p_pc = "copy"
    /\ p_pc' = "store"
    /\ buffer_' = enqueue_copy
    /\ UNCHANGED <<requested, read_head_, write_head_, p_src, p_read_start,
                   p_write_start, p_ret, p_wa, cons_vars, hist_vars>>

\* Faulty variant for mutation testing: the new write offset is not masked
EnqueueStore_unmasked ==
    /\ p_pc = "store"
    /\ p_pc' = "idle"
    /\ write_head_' = enq_write_end
    /\ p_ret' = enq_write_size
    /\ accepted' = accepted \o SubSeq(p_src, 1, enq_write_size)
    /\ UNCHANGED <<requested, buffer_, read_head_, p_src, p_read_start,
                   p_write_start, p_wa, cons_vars, next_val, delivered>>

\* lines 246-249: the store of write_head_ and the return
EnqueueStore ==
    /\ p_pc = "store"
    /\ p_pc' = "idle"
    /\ write_head_' = enq_cnt_lo
    /\ p_ret' = enq_write_size
    /\ accepted' = accepted \o SubSeq(p_src, 1, enq_write_size)
    /\ UNCHANGED <<requested, buffer_, read_head_, p_src, p_read_start,
                   p_write_start, p_wa, cons_vars, next_val, delivered>>

---------------------------------------------------------------------------
(* The consumer thread: one dequeue at a time. *)

\* dequeue(dst, size), lines 183-184: the loads of the two heads.  The load
\* of write_head_ is the one the producer can interfere with.
DequeueLoad(n) ==
    /\ c_pc = "idle"
    /\ c_pc' = "copy"
    /\ c_size' = n
    /\ c_dst' = [i \in 1 .. n |-> Unwritten]
    /\ c_read_start' = read_head_
    /\ c_write_start' = write_head_
    /\ c_ra' = get_read_available
    /\ UNCHANGED <<requested, ring_vars, prod_vars, c_ret, hist_vars>>

\* lines 185-207: the segment sizes and the copies out of the storage
DequeueCopy ==
    /\ c_pc = "copy"
    /\ c_pc' = "store"
    /\ \E S \in SUBSET racy_slots : c_dst' = dequeue_copy(torn_view(S))
    /\ UNCHANGED <<requested, ring_vars, prod_vars, c_size, c_read_start,
                   c_write_start, c_ret, c_ra, hist_vars>>

\* Faulty variant for mutation testing: the consumer stores the wrong head
DequeueStore_write_head ==
    /\ c_pc = "store"
    /\ c_pc' = "idle"
    /\ write_head_' = deq_cnt_lo
    /\ c_ret' = deq_read_size
    /\ delivered' = delivered \o SubSeq(c_dst, 1, deq_read_size)
    /\ UNCHANGED <<requested, buffer_, read_head_, prod_vars, c_size, c_dst,
                   c_read_start, c_write_start, c_ra, next_val, accepted>>

\* lines 209-212: the store of read_head_ and the return
DequeueStore ==
    /\ c_pc = "store"
    /\ c_pc' = "idle"
    /\ read_head_' = deq_cnt_lo
    /\ c_ret' = deq_read_size
    /\ delivered' = delivered \o SubSeq(c_dst, 1, deq_read_size)
    /\ UNCHANGED <<requested, buffer_, write_head_, prod_vars, c_size, c_dst,
                   c_read_start, c_write_start, c_ra, next_val, accepted>>

---------------------------------------------------------------------------
(* One producer and one consumer on a buffer constructed with a capacity. *)

Constructed(r) ==
    /\ requested = r
    /\ buffer_ \in CircularBuffer(r)
    /\ read_head_ = 0
    /\ write_head_ = 0
    /\ p_pc = "idle" /\ p_src = <<>> /\ p_read_start = 0 /\ p_write_start = 0
    /\ p_ret = 0 /\ p_wa = 0
    /\ c_pc = "idle" /\ c_size = 0 /\ c_dst = <<>> /\ c_read_start = 0
    /\ c_write_start = 0 /\ c_ret = 0 /\ c_ra = 0
    /\ next_val = 0 /\ accepted = <<>> /\ delivered = <<>>

\* No audio stream is open: the buffer is used on its own.
NoStream ==
    /\ channels = 0 /\ frame_size = 0 /\ n_frame = 0
    /\ file_io_buffer_ = <<>> /\ file_io_lock_ = "free" /\ io_counter_ = 0
    /\ io_pc = "none" /\ cb_pc = "none"
    /\ file_frames = 0 /\ file_out = <<>> /\ output = <<>>

Init ==
    /\ \E r \in 0 .. MaxRequested : Constructed(r)
    /\ phase = "free"
    /\ np_z = {} /\ np_ret = {}
    /\ NoStream

\* The steps of the two threads leave the scripts' variables alone.
script_vars == <<phase, pow2_vars, stream_vars>>

Next ==
    \/ \E n \in 0 .. capacity :
          /\ next_val + n <= MaxItems
          /\ EnqueueLoad(n)
          /\ UNCHANGED script_vars
    \/ EnqueueCopy /\ UNCHANGED script_vars
    \/ EnqueueStore /\ UNCHANGED script_vars
    \/ \E n \in 0 .. capacity :
          /\ Len(delivered) + n <= MaxItems
          /\ DequeueLoad(n)
          /\ UNCHANGED script_vars
    \/ DequeueCopy /\ UNCHANGED script_vars
    \/ DequeueStore /\ UNCHANGED script_vars

Spec == Init /\ [][Next]_vars

---------------------------------------------------------------------------
(* One caller: whole calls of enqueue and dequeue, one after the other.   *)
(* The script first moves both heads of the empty buffer to some index by *)
(* enqueue(1); dequeue(1) pairs ("start" -> "adv_enq" -> "adv_deq" ->     *)
(* "start"), then enqueues k elements and immediately dequeues k          *)
(* ("rt_enq", "rt_deq", "done").                                           *)

SeqInit ==
    /\ \E r \in 0 .. MaxRequested : Constructed(r)
    /\ phase = "start"
    /\ np_z = {} /\ np_ret = {}
    /\ NoStream

SeqNext ==
    \/ /\ phase = "start"
       /\ next_val + 1 <= MaxItems
       /\ EnqueueLoad(1)
       /\ phase' = "adv_enq"
       /\ UNCHANGED <<pow2_vars, stream_vars>>
    \/ /\ phase = "adv_enq" /\ p_pc = "idle"
       /\ DequeueLoad(1)
       /\ phase' = "adv_deq"
       /\ UNCHANGED <<pow2_vars, stream_vars>>
    \/ /\ phase = "adv_deq"
       /\ DequeueStore
       /\ phase' = "start"
       /\ UNCHANGED <<pow2_vars, stream_vars>>
    \/ /\ phase = "start"
       /\ \E k \in 1 .. capacity - 1 :
             next_val + k <= MaxItems /\ EnqueueLoad(k)
       /\ phase' = "rt_enq"
       /\ UNCHANGED <<pow2_vars, stream_vars>>
    \/ /\ phase = "rt_enq" /\ p_pc = "idle"
       /\ DequeueLoad(Len(p_src))
       /\ phase' = "rt_deq"
       /\ UNCHANGED <<pow2_vars, stream_vars>>
    \/ /\ phase = "rt_deq"
       /\ DequeueStore
       /\ phase' = "done"
       /\ UNCHANGED <<pow2_vars, stream_vars>>
    \/ EnqueueCopy /\ UNCHANGED script_vars
    \/ EnqueueStore /\ UNCHANGED script_vars
    \/ DequeueCopy /\ UNCHANGED script_vars

SpecSeq == SeqInit /\ [][SeqNext]_vars

---------------------------------------------------------------------------
(* next_pow2 called directly, on arguments over the whole width of         *)
(* std::size_t, next to a buffer constructed with a small argument.        *)

\* Arguments: zero, every power of two with any of its LowBits lowest bits
\* added, and every power of two less one (all ones below a position).
Pow2Args ==
    {{}} \cup {{k} \cup low : k \in BitPos, low \in SUBSET (0 .. LowBits - 1)}
         \cup {SizeDec({k}) : k \in BitPos}

Pow2Init ==
    /\ \E r \in 0 .. MaxRequested : Constructed(r)
    /\ phase = "np_call"
    /\ np_z \in Pow2Args
    /\ np_ret = {}
    /\ NoStream

CallNextPow2 ==
    /\ phase = "np_call"
    /\ np_ret' \in next_pow2(np_z)
    /\ phase' = "np_done"
    /\ UNCHANGED <<requested, ring_vars, prod_vars, cons_vars, hist_vars, np_z,
                   stream_vars>>

Pow2Next == CallNextPow2

SpecPow2 == Pow2Init /\ [][Pow2Next]_vars

---------------------------------------------------------------------------
(* The two audio processes.  PlaybackProcess (play_audio_file.cc) and      *)
(* RecordProcess (record_audio_file.cc) each own a CircularBuffer, a       *)
(* staging buffer, a mutex, a condition variable and a counter.  start()   *)
(* runs on the IO thread and the callback on the audio thread; the calls   *)
(* of enqueue and dequeue they make are the three-step calls above.  The   *)
(* stream is started before start() is called, so the callback can run in  *)
(* every position of the IO thread.  Sample k of the played file and the   *)
(* k-th sample captured both have the value k; a sample of silence is 0.   *)

\* channels of the sound file
MaxChannels == 1
\* frame_size given to the constructor of the process
MaxFrameSize == 1
\* frames per callback invocation
MaxFrames == 2
\* frames of the played file
MaxFileFrames == 10
\* samples handed to the capture callback
MaxCaptured == 20
\* io_counter_ is not incremented past this value
MaxCounter == 5
\* staging buffers the playback queue holds for each BUFFER_FACTOR (128 in
\* the source: QUEUE_FACTOR = 128U * BUFFER_FACTOR)
QueueScale == 3

BUFFER_FACTOR == 4
PlaybackQueueFactor(scale) == scale * BUFFER_FACTOR
RecordQueueFactor == 4 * BUFFER_FACTOR

\* start(): buffer_len, frames; the callback: frames * channels
buffer_len == Len(file_io_buffer_)
frames == buffer_len \div channels
data_needed == n_frame * channels

\* The state after the constructor of a process and the start of the stream.
ProcessConstructed(queue_factor) ==
    /\ channels \in 1 .. MaxChannels
    /\ frame_size \in 1 .. MaxFrameSize
    /\ n_frame \in 1 .. MaxFrames
    /\ Constructed(queue_factor * channels * frame_size)
    /\ file_io_buffer_ = Zeros(BUFFER_FACTOR * channels * frame_size)
    /\ file_io_lock_ = "free"
    /\ io_counter_ = 0
    /\ io_pc = "start" /\ cb_pc = "idle"
    /\ file_out = <<>> /\ output = <<>>
    /\ np_z = {} /\ np_ret = {}

\* What the steps of a process leave alone besides the buffer.
config_vars == <<channels, frame_size, n_frame, file_frames, phase, pow2_vars>>

\* std::unique_lock lock{file_io_lock_}: blocks until the mutex is free
unique_lock ==
    /\ file_io_lock_ = "free"
    /\ file_io_lock_' = "io"

\* condition_variable::notify_one(): wakes the IO thread if it is waiting
notify_one == IF io_pc = "waiting" THEN "woken" ELSE io_pc

\* condition_variable::wait(lock) returning without a notification
SpuriousWake ==
    /\ io_pc = "waiting"
    /\ io_pc' = "woken"
    /\ UNCHANGED <<requested, ring_vars, prod_vars, cons_vars, hist_vars,
                   config_vars, file_io_buffer_, file_io_lock_, io_counter_,
                   cb_pc, file_out, output>>

---------------------------------------------------------------------------
(* PlaybackProcess. *)

\* start(), line 189: the lock taken before the loop
PlaybackLock ==
    /\ phase = "playback"
    /\ io_pc = "start"
    /\ unique_lock
    /\ io_pc' = "check"
    /\ UNCHANGED <<requested, ring_vars, prod_vars, cons_vars, hist_vars,
                   config_vars, file_io_buffer_, io_counter_, cb_pc, file_out,
                   output>>

\* start(), lines 191-194 and 211: the test of the free space; without
\* enough of it the thread goes to wait, which releases the mutex
PlaybackCheck ==
    /\ phase = "playback"
    /\ io_pc = "check"
    /\ IF get_write_available > buffer_len
       THEN io_pc' = "read" /\ UNCHANGED file_io_lock_
       ELSE io_pc' = "waiting" /\ file_io_lock_' = "free"
    /\ UNCHANGED <<requested, ring_vars, prod_vars, cons_vars, hist_vars,
                   config_vars, file_io_buffer_, io_counter_, cb_pc, file_out,
                   output>>

\* file_.readf(buffer, frames) with next_val samples read so far
readf == MinOf(frames, file_frames - next_val \div channels)

\* start(), lines 195-197: the file read and the call of enqueue
PlaybackRead ==
    /\ phase = "playback"
    /\ io_pc = "read"
    /\ EnqueueLoad(readf * channels)
    /\ io_pc' = "enqueue"
    /\ UNCHANGED <<config_vars, file_io_buffer_, file_io_lock_, io_counter_,
                   cb_pc, file_out, output>>

\* Faulty variant for mutation testing: after a full read the loop goes
\* round without waiting
PlaybackAfterEnqueue_again ==
    /\ phase = "playback"
    /\ io_pc = "enqueue" /\ p_pc = "idle"
    /\ IF Len(p_src) \div channels < frames
       THEN io_pc' = "done" /\ file_io_lock_' = "free"
       ELSE io_pc' = "check" /\ UNCHANGED file_io_lock_
    /\ UNCHANGED <<requested, ring_vars, prod_vars, cons_vars, hist_vars,
                   config_vars, file_io_buffer_, io_counter_, cb_pc, file_out,
                   output>>

\* start(), lines 198-211: after enqueue has returned, a short read ends
\* the loop and start(); otherwise the thread waits
PlaybackAfterEnqueue ==
    /\ phase = "playback"
    /\ io_pc = "enqueue" /\ p_pc = "idle"
    /\ io_pc' = IF Len(p_src) \div channels < frames THEN "done" ELSE "waiting"
    /\ file_io_lock_' = "free"
    /\ UNCHANGED <<requested, ring_vars, prod_vars, cons_vars, hist_vars,
                   config_vars, file_io_buffer_, io_counter_, cb_pc, file_out,
                   output>>

\* start(), line 211: wait() takes the mutex again before it returns
PlaybackWake ==
    /\ phase = "playback"
    /\ io_pc = "woken"
    /\ unique_lock
    /\ io_pc' = "check"
    /\ UNCHANGED <<requested, ring_vars, prod_vars, cons_vars, hist_vars,
                   config_vars, file_io_buffer_, io_counter_, cb_pc, file_out,
                   output>>

\* play_audio_file, lines 324-327: start() has returned and closeStream
\* stops the stream once the callback in progress has returned; the
\* callback is not invoked again
PlaybackCloseStream ==
    /\ phase = "playback"
    /\ io_pc = "done" /\ cb_pc = "idle"
    /\ cb_pc' = "closed"
    /\ UNCHANGED <<requested, ring_vars, prod_vars, cons_vars, hist_vars,
                   config_vars, file_io_buffer_, file_io_lock_, io_counter_,
                   io_pc, file_out, output>>

\* Faulty variant for mutation testing: an underrun leaves the output block
\* as the driver handed it over
PlaybackCbCheck_no_fill ==
    /\ phase = "playback"
    /\ cb_pc = "idle"
    /\ output' = [i \in 1 .. data_needed |-> Unwritten]
    /\ cb_pc' = IF get_read_available > data_needed THEN "dequeue" ELSE "notify"
    /\ UNCHANGED <<requested, ring_vars, prod_vars, cons_vars, hist_vars,
                   config_vars, file_io_buffer_, file_io_lock_, io_counter_,
                   io_pc, file_out>>

\* read_frames(), lines 216-221 and 223-227: the test of the available
\* data; without enough of it the output block is filled with zeros
PlaybackCbCheck ==
    /\ phase = "playback"
    /\ cb_pc = "idle"
    /\ IF get_read_available > data_needed
       THEN cb_pc' = "dequeue" /\ output' = [i \in 1 .. data_needed |-> Unwritten]
       ELSE cb_pc' = "notify" /\ output' = Zeros(data_needed)
    /\ UNCHANGED <<requested, ring_vars, prod_vars, cons_vars, hist_vars,
                   config_vars, file_io_buffer_, file_io_lock_, io_counter_,
                   io_pc, file_out>>

\* read_frames(), line 222: the call of dequeue
PlaybackCbDequeue ==
    /\ phase = "playback"
    /\ cb_pc = "dequeue"
    /\ DequeueLoad(data_needed)
    /\ cb_pc' = "in_dequeue"
    /\ UNCHANGED <<config_vars, file_io_buffer_, file_io_lock_, io_counter_,
                   io_pc, file_out, output>>

\* read_frames(), line 222: dequeue returns, dst is the output block
PlaybackCbDequeued ==
    /\ phase = "playback"
    /\ cb_pc = "in_dequeue"
    /\ DequeueStore
    /\ cb_pc' = "notify"
    /\ output' = c_dst
    /\ UNCHANGED <<config_vars, file_io_buffer_, file_io_lock_, io_counter_,
                   io_pc, file_out>>

\* Faulty variant for mutation testing: the threshold is BUFFER_FACTOR
PlaybackCbNotify_late ==
    /\ phase = "playback"
    /\ cb_pc = "notify"
    /\ cb_pc' = "idle"
    /\ IF io_counter_ >= BUFFER_FACTOR /\ file_io_lock_ = "free"
       THEN io_counter_' = 0 /\ io_pc' = notify_one
       ELSE /\ io_counter_ < MaxCounter
            /\ io_counter_' = io_counter_ + 1
            /\ UNCHANGED io_pc
    /\ UNCHANGED <<requested, ring_vars, prod_vars, cons_vars, hist_vars,
                   config_vars, file_io_buffer_, file_io_lock_, file_out,
                   output>>

\* Faulty variant for mutation testing: the counter is reset but
\* notify_one is not called
PlaybackCbNotify_no_signal ==
    /\ phase = "playback"
    /\ cb_pc = "notify"
    /\ cb_pc' = "idle"
    /\ IF io_counter_ >= (BUFFER_FACTOR * 3) \div 4 /\ file_io_lock_ = "free"
       THEN io_counter_' = 0
       ELSE io_counter_ < MaxCounter /\ io_counter_' = io_counter_ + 1
    /\ UNCHANGED <<requested, ring_vars, prod_vars, cons_vars, hist_vars,
                   config_vars, file_io_buffer_, file_io_lock_, io_pc,
                   file_out, output>>

\* Faulty variant for mutation testing: the signal is sent without the mutex
PlaybackCbNotify_unlocked ==
    /\ phase = "playback"
    /\ cb_pc = "notify"
    /\ cb_pc' = "idle"
    /\ IF io_counter_ >= (BUFFER_FACTOR * 3) \div 4
       THEN io_counter_' = 0 /\ io_pc' = notify_one
       ELSE io_counter_' = io_counter_ + 1 /\ UNCHANGED io_pc
    /\ UNCHANGED <<requested, ring_vars, prod_vars, cons_vars, hist_vars,
                   config_vars, file_io_buffer_, file_io_lock_, file_out,
                   output>>

\* Faulty variant for mutation testing: lock() in the place of try_lock()
PlaybackCbNotify_lock ==
    /\ phase = "playback"
    /\ cb_pc = "notify"
    /\ cb_pc' = "idle"
    /\ IF io_counter_ >= (BUFFER_FACTOR * 3) \div 4
       THEN file_io_lock_ = "free" /\ io_counter_' = 0 /\ io_pc' = notify_one
       ELSE io_counter_' = io_counter_ + 1 /\ UNCHANGED io_pc
    /\ UNCHANGED <<requested, ring_vars, prod_vars, cons_vars, hist_vars,
                   config_vars, file_io_buffer_, file_io_lock_, file_out,
                   output>>

\* read_frames(), lines 231-237: with the counter at its threshold and the
\* mutex free, try_lock, the reset, notify_one and unlock; otherwise the
\* increment
PlaybackCbNotify ==
    /\ phase = "playback"
    /\ cb_pc = "notify"
    /\ cb_pc' = "idle"
    /\ IF io_counter_ >= (BUFFER_FACTOR * 3) \div 4 /\ file_io_lock_ = "free"
       THEN io_counter_' = 0 /\ io_pc' = notify_one
       ELSE /\ io_counter_ < MaxCounter
            /\ io_counter_' = io_counter_ + 1
            /\ UNCHANGED io_pc
    /\ UNCHANGED <<requested, ring_vars, prod_vars, cons_vars, hist_vars,
                   config_vars, file_io_buffer_, file_io_lock_, file_out,
                   output>>

\* The queue holds at least two staging buffers: start() reads only into
\* free space of more than one.
PlaybackInit ==
    /\ \E scale \in 2 .. QueueScale :
          ProcessConstructed(PlaybackQueueFactor(scale))
    /\ phase = "playback"
    /\ file_frames \in 1 .. MaxFileFrames

\* The steps of enqueue and dequeue inside a process.
process_vars == <<config_vars, file_io_buffer_, file_io_lock_, io_counter_,
                  io_pc, cb_pc, file_out, output>>

PlaybackNext ==
    \/ PlaybackLock
    \/ PlaybackCheck
    \/ PlaybackRead
    \/ EnqueueCopy /\ UNCHANGED process_vars
    \/ EnqueueStore /\ UNCHANGED process_vars
    \/ PlaybackAfterEnqueue
    \/ SpuriousWake
    \/ PlaybackWake
    \/ PlaybackCbCheck
    \/ PlaybackCbDequeue
    \/ DequeueCopy /\ UNCHANGED process_vars
    \/ PlaybackCbDequeued
    \/ PlaybackCbNotify

SpecPlayback == PlaybackInit /\ [][PlaybackNext]_vars

\* The steps of the IO thread inside start(), and of the audio thread
\* inside the callback.
PlaybackIO ==
    \/ PlaybackLock
    \/ PlaybackCheck
    \/ PlaybackRead
    \/ phase = "playback" /\ EnqueueCopy /\ UNCHANGED process_vars
    \/ phase = "playback" /\ EnqueueStore /\ UNCHANGED process_vars
    \/ PlaybackAfterEnqueue
    \/ PlaybackWake

PlaybackCallback ==
    \/ PlaybackCbCheck
    \/ PlaybackCbDequeue
    \/ phase = "playback" /\ DequeueCopy /\ UNCHANGED process_vars
    \/ PlaybackCbDequeued
    \/ PlaybackCbNotify

\* Both threads are scheduled again and again, and the driver keeps
\* invoking the callback while the stream is open.  The callback never
\* blocks: its step is disabled only where MaxCounter stops the counter,
\* with the mutex held, so it is owed a step as often as the mutex is
\* released (strong fairness).  A wait that returns without a
\* notification is possible but never owed.
SpecPlaybackFair ==
    SpecPlayback /\ WF_vars(PlaybackIO) /\ SF_vars(PlaybackCallback)

\* play_audio_file, lines 321-327: the process from startStream to the
\* closeStream that follows the return of start()
PlayAudioFileNext == PlaybackNext \/ PlaybackCloseStream

SpecPlayAudioFile == PlaybackInit /\ [][PlayAudioFileNext]_vars

---------------------------------------------------------------------------
(* RecordProcess. *)

\* start(), line 119: the lock taken before the loop
RecordLock ==
    /\ phase = "capture"
    /\ io_pc = "start"
    /\ unique_lock
    /\ io_pc' = "check"
    /\ UNCHANGED <<requested, ring_vars, prod_vars, cons_vars, hist_vars,
                   config_vars, file_io_buffer_, io_counter_, cb_pc, file_out,
                   output>>

\* start(), lines 121-124: the test of the available data; without enough
\* of it the body of the loop is skipped
RecordCheck ==
    /\ phase = "capture"
    /\ io_pc = "check"
    /\ io_pc' = IF get_read_available > buffer_len THEN "dequeue" ELSE "again"
    /\ UNCHANGED <<requested, ring_vars, prod_vars, cons_vars, hist_vars,
                   config_vars, file_io_buffer_, file_io_lock_, io_counter_,
                   cb_pc, file_out, output>>

\* start(), lines 138-139 and 121: after a skipped body the loop goes
\* round, the mutex still held
RecordAgain ==
    /\ phase = "capture"
    /\ io_pc = "again"
    /\ io_pc' = "check"
    /\ UNCHANGED <<requested, ring_vars, prod_vars, cons_vars, hist_vars,
                   config_vars, file_io_buffer_, file_io_lock_, io_counter_,
                   cb_pc, file_out, output>>

\* start(), line 125: the call of dequeue
RecordDequeue ==
    /\ phase = "capture"
    /\ io_pc = "dequeue"
    /\ DequeueLoad(buffer_len)
    /\ io_pc' = "in_dequeue"
    /\ UNCHANGED <<config_vars, file_io_buffer_, file_io_lock_, io_counter_,
                   cb_pc, file_out, output>>

\* The staging buffer after dequeue has written dst into it: the positions
\* dequeue did not write keep what they held.
staged == [i \in 1 .. buffer_len |->
             IF c_dst[i] = Unwritten THEN file_io_buffer_[i] ELSE c_dst[i]]

\* start(), line 125: dequeue returns, dst is the staging buffer
RecordDequeued ==
    /\ phase = "capture"
    /\ io_pc = "in_dequeue"
    /\ DequeueStore
    /\ io_pc' = "write"
    /\ file_io_buffer_' = staged
    /\ UNCHANGED <<config_vars, file_io_lock_, io_counter_, cb_pc, file_out,
                   output>>

\* Faulty variant for mutation testing: a short write does not end the loop
RecordWrite_no_break ==
    /\ phase = "capture"
    /\ io_pc = "write"
    /\ \E write_frames \in 0 .. frames :
          file_out' = file_out
                        \o SubSeq(file_io_buffer_, 1, write_frames * channels)
    /\ io_pc' = "check"
    /\ UNCHANGED <<requested, ring_vars, prod_vars, cons_vars, hist_vars,
                   config_vars, file_io_buffer_, file_io_lock_, io_counter_,
                   cb_pc, output>>

\* start(), lines 126-142: file_.writef(buffer, frames) writes all the
\* frames or fewer; fewer ends the loop, and the thread waits once
RecordWrite ==
    /\ phase = "capture"
    /\ io_pc = "write"
    /\ \E write_frames \in 0 .. frames :
          /\ file_out' = file_out
                           \o SubSeq(file_io_buffer_, 1, write_frames * channels)
          /\ IF write_frames < frames
             THEN io_pc' = "waiting" /\ file_io_lock_' = "free"
             ELSE io_pc' = "check" /\ UNCHANGED file_io_lock_
    /\ UNCHANGED <<requested, ring_vars, prod_vars, cons_vars, hist_vars,
                   config_vars, file_io_buffer_, io_counter_, cb_pc, output>>

\* start(), lines 142-143: wait() takes the mutex again, start() returns
\* and the lock's destructor releases it
RecordReturn ==
    /\ phase = "capture"
    /\ io_pc = "woken"
    /\ file_io_lock_ = "free"
    /\ io_pc' = "done"
    /\ UNCHANGED <<requested, ring_vars, prod_vars, cons_vars, hist_vars,
                   config_vars, file_io_buffer_, file_io_lock_, io_counter_,
                   cb_pc, file_out, output>>

\* write_frames(), lines 146-147: the call of enqueue on the input block
RecordCbEnqueue ==
    /\ phase = "capture"
    /\ cb_pc = "idle"
    /\ next_val + data_needed <= MaxCaptured
    /\ EnqueueLoad(data_needed)
    /\ cb_pc' = "enqueue"
    /\ UNCHANGED <<config_vars, file_io_buffer_, file_io_lock_, io_counter_,
                   io_pc, file_out, output>>

\* Faulty variant for mutation testing: the counter is not reset
RecordCbNotify_no_reset ==
    /\ phase = "capture"
    /\ cb_pc = "enqueue" /\ p_pc = "idle"
    /\ io_counter_' = io_counter_ + 1
    /\ cb_pc' = IF io_counter_ >= BUFFER_FACTOR /\ file_io_lock_ = "free"
                THEN "signal" ELSE "idle"
    /\ UNCHANGED <<requested, ring_vars, prod_vars, cons_vars, hist_vars,
                   config_vars, file_io_buffer_, file_io_lock_, io_pc,
                   file_out, output>>

\* write_frames(), lines 150-152 and 154-156: after enqueue has returned,
\* with the counter at its threshold and the mutex free, try_lock, the
\* reset and unlock; otherwise the increment
RecordCbNotify ==
    /\ phase = "capture"
    /\ cb_pc = "enqueue" /\ p_pc = "idle"
    /\ IF io_counter_ >= BUFFER_FACTOR /\ file_io_lock_ = "free"
       THEN io_counter_' = 0 /\ cb_pc' = "signal"
       ELSE io_counter_' = io_counter_ + 1 /\ cb_pc' = "idle"
    /\ UNCHANGED <<requested, ring_vars, prod_vars, cons_vars, hist_vars,
                   config_vars, file_io_buffer_, file_io_lock_, io_pc,
                   file_out, output>>

\* Faulty variant for mutation testing: notify_one is not called
RecordCbSignal_dropped ==
    /\ phase = "capture"
    /\ cb_pc = "signal"
    /\ cb_pc' = "idle"
    /\ UNCHANGED <<requested, ring_vars, prod_vars, cons_vars, hist_vars,
                   config_vars, file_io_buffer_, file_io_lock_, io_counter_,
                   io_pc, file_out, output>>

\* write_frames(), line 153: notify_one, after the unlock
RecordCbSignal ==
    /\ phase = "capture"
    /\ cb_pc = "signal"
    /\ cb_pc' = "idle"
    /\ io_pc' = notify_one
    /\ UNCHANGED <<requested, ring_vars, prod_vars, cons_vars, hist_vars,
                   config_vars, file_io_buffer_, file_io_lock_, io_counter_,
                   file_out, output>>

RecordInit ==
    /\ ProcessConstructed(RecordQueueFactor)
    /\ phase = "capture"
    /\ file_frames = 0

RecordNext ==
    \/ RecordLock
    \/ RecordCheck
    \/ RecordAgain
    \/ RecordDequeue
    \/ DequeueCopy /\ UNCHANGED process_vars
    \/ RecordDequeued
    \/ RecordWrite
    \/ SpuriousWake
    \/ RecordReturn
    \/ RecordCbEnqueue
    \/ EnqueueCopy /\ UNCHANGED process_vars
    \/ EnqueueStore /\ UNCHANGED process_vars
    \/ RecordCbNotify
    \/ RecordCbSignal

SpecRecord == RecordInit /\ [][RecordNext]_vars

\* The steps of the audio thread inside the callback.
RecordCallback ==
    \/ RecordCbEnqueue
    \/ phase = "capture" /\ EnqueueCopy /\ UNCHANGED process_vars
    \/ phase = "capture" /\ EnqueueStore /\ UNCHANGED process_vars
    \/ RecordCbNotify
    \/ RecordCbSignal

\* The steps of the IO thread inside start().
RecordIO ==
    \/ RecordLock
    \/ RecordCheck
    \/ RecordAgain
    \/ RecordDequeue
    \/ phase = "capture" /\ DequeueCopy /\ UNCHANGED process_vars
    \/ RecordDequeued
    \/ RecordWrite
    \/ RecordReturn

\* Both threads are scheduled again and again, and the driver keeps
\* invoking the callback while the stream is open (here: until MaxCaptured
\* samples have been captured).  Neither thread's next step can be
\* disabled by the other, so weak fairness is what the scheduling gives.
\* A wait that returns without a notification is possible but never owed.
SpecRecordFair ==
    SpecRecord /\ WF_vars(RecordIO) /\ WF_vars(RecordCallback)

---------------------------------------------------------------------------
(* Either process. *)

StreamInit == PlaybackInit \/ RecordInit

StreamNext == PlaybackNext \/ RecordNext

SpecStream == StreamInit /\ [][StreamNext]_vars

---------------------------------------------------------------------------
(* Claims about the buffer under one producer and one consumer. *)

\* elements accepted by enqueue and not yet returned by dequeue
Occupied == Len(accepted) - Len(delivered)

\* the storage position i places after head h
SlotAfter(h, i) == (h + i) % capacity

IsPrefix(s, t) == Len(s) <= Len(t) /\ SubSeq(t, 1, Len(s)) = s

\* C1: in every reachable state get_read_available() is the number of
\* occupied slots and get_write_available() the number of free slots
\* (capacity - 1 - occupied), also when write_head_ is below read_head_.
C1_AvailableIsOccupancy ==
    /\ get_read_available = Occupied
    /\ get_write_available = capacity - 1 - Occupied

\* the slots holding the elements accepted and not yet returned
LiveSlots == {SlotAfter(read_head_, i) : i \in 0 .. Occupied - 1}
\* the slots the running enqueue writes
EnqueueSlots == {SlotAfter(p_write_start, i) : i \in 0 .. enq_write_size - 1}

\* C2: the number of elements accepted and not yet returned stays between 0
\* and capacity - 1, so enqueue never writes a slot whose element has not
\* been dequeued.
C2_AtMostCapacityMinusOneLive ==
    /\ 0 <= Occupied
    /\ Occupied <= capacity - 1
    /\ p_pc = "copy" => EnqueueSlots \cap LiveSlots = {}

\* C3: what dequeue has delivered is a prefix of what enqueue has accepted.
C3_DeliveredIsPrefixOfAccepted == IsPrefix(delivered, accepted)

\* C5: in every reachable state get_read_available() + get_write_available()
\* is capacity() - 1, both taken on the same pair of heads.
C5_AvailableSum == get_read_available + get_write_available = capacity - 1
C5_Witness == write_head_ < read_head_ /\ Occupied = capacity - 1 /\ capacity = 4

\* C6: enqueue(src, n) returns min(n, write_available()), stores
\* src[0..returned) in order at the positions write_head, write_head + 1, ...
\* modulo capacity and advances write_head by the returned count modulo
\* capacity.
C6_EnqueueContract ==
    /\ p_pc # "idle" => write_head_ = p_write_start
    /\ p_pc = "idle" =>
          /\ p_ret = MinOf(Len(p_src), p_wa)
          /\ write_head_ = SlotAfter(p_write_start, p_ret)
          /\ \A i \in 0 .. p_ret - 1 :
                buffer_[SlotAfter(p_write_start, i) + 1] = p_src[i + 1]
C6_Witness ==
    /\ p_pc = "idle" /\ 0 < p_ret /\ p_ret < Len(p_src)
    /\ p_write_start + p_ret > capacity

\* the elements storage position s holds while the consumer copies: the
\* stored one, and the one a producer copy in flight puts there
SlotValues(s) ==
    {buffer_[s + 1]} \cup (IF p_pc = "copy" THEN {enqueue_copy[s + 1]} ELSE {})

\* C7: dequeue(dst, n) returns min(n, read_available()), copies into
\* dst[0..returned) the elements at the positions read_head, read_head + 1, ...
\* modulo capacity in order, advances read_head by the returned count modulo
\* capacity, and just returns fewer elements when fewer than n are available.
C7_DequeueContract ==
    /\ [](c_pc # "idle" => read_head_ = c_read_start)
    /\ [](c_pc = "idle" =>
            /\ c_ret = MinOf(c_size, c_ra)
            /\ read_head_ = SlotAfter(c_read_start, c_ret)
            /\ Len(c_dst) = c_size
            /\ \A i \in c_ret + 1 .. c_size : c_dst[i] = Unwritten)
    /\ [][(c_pc = "copy" /\ c_pc' = "store") =>
            \A i \in 0 .. MinOf(c_size, c_ra) - 1 :
                c_dst'[i + 1] \in SlotValues(SlotAfter(c_read_start, i))]_vars
C7_Witness ==
    /\ c_pc = "idle" /\ 0 < c_ret /\ c_ret < c_size
    /\ c_read_start + c_ret > capacity

\* a step of the running enqueue (the copies, or the store and return)
EnqueueStep == p_pc # "idle" /\ p_pc' # p_pc

\* C10: when write_available() is 0, enqueue returns 0, leaves write_head,
\* read_head and every storage slot unchanged and runs to its end without
\* waiting; when 0 < write_available() < n only the first write_available()
\* elements of the block are stored and accepted.
C10_OverflowDrops ==
    /\ [](p_pc = "copy" => ENABLED EnqueueCopy)
    /\ [](p_pc = "store" => ENABLED EnqueueStore)
    /\ []((p_pc = "idle" /\ p_wa = 0) => p_ret = 0)
    /\ []((p_pc = "idle" /\ 0 < p_wa /\ p_wa < Len(p_src)) => p_ret = p_wa)
    /\ [][(EnqueueStep /\ p_wa = 0) =>
            /\ buffer_' = buffer_
            /\ write_head_' = write_head_
            /\ read_head_' = read_head_
            /\ accepted' = accepted]_vars
    /\ [][(EnqueueStep /\ 0 < p_wa /\ p_wa < Len(p_src)) =>
            /\ p_pc = "copy" =>
                  \A s \in 0 .. capacity - 1 :
                      buffer_'[s + 1] =
                          IF \E i \in 0 .. p_wa - 1 : s = SlotAfter(p_write_start, i)
                          THEN p_src[((s - p_write_start) % capacity) + 1]
                          ELSE buffer_[s + 1]
            /\ p_pc = "store" => accepted' = accepted \o SubSeq(p_src, 1, p_wa)]_vars
C10_Witness ==
    /\ p_pc = "idle" /\ p_wa = 0 /\ Len(p_src) > 0 /\ p_ret = 0
    /\ Occupied = capacity - 1 /\ write_head_ < read_head_

---------------------------------------------------------------------------
(* Claims about whole calls made one after the other. *)

\* C4: from the empty buffer with both heads at a common index, enqueue of
\* k values (0 < k < capacity) returns k and the dequeue of k that follows
\* immediately returns k and yields those k values in order.
C4_RoundTrip ==
    /\ (phase = "rt_enq" /\ p_pc = "idle") => p_ret = Len(p_src)
    /\ phase = "done" => (c_ret = Len(p_src) /\ c_dst = p_src)

\* C9: a freshly constructed buffer has capacity next_pow2(requested), nothing
\* to read and capacity - 1 to write; enqueue of capacity - 1 elements returns
\* capacity - 1 and leaves capacity - 1 to read and nothing to write; the
\* dequeue of capacity - 1 that follows returns them all in order and leaves
\* the buffer empty.
FillAndDrain == next_val = capacity - 1 /\ Len(p_src) = capacity - 1
C9_FillAndDrainFresh ==
    /\ (phase = "start" /\ next_val = 0) =>
          /\ Bits(capacity) \in next_pow2(Bits(requested))
          /\ get_read_available = 0
          /\ get_write_available = capacity - 1
    /\ (phase = "rt_enq" /\ p_pc = "idle" /\ FillAndDrain) =>
          /\ p_ret = capacity - 1
          /\ get_read_available = capacity - 1
          /\ get_write_available = 0
    /\ (phase = "done" /\ FillAndDrain) =>
          /\ c_ret = capacity - 1
          /\ c_dst = p_src
          /\ get_read_available = 0
          /\ get_write_available = capacity - 1
C9_Witness == phase = "done" /\ FillAndDrain /\ capacity = 4 /\ c_dst = <<1, 2, 3>>

---------------------------------------------------------------------------
(* Claims about next_pow2. *)

SizeLess(a, b) == a # b /\ SizeLeq(a, b)
IsPowerOfTwo(z) == Cardinality(z) = 1
PowersOfTwo == {{k} : k \in BitPos}
\* r is what the rounding is described to give for z
RoundedUp(z, r) ==
    /\ SizeLeq(z, Bits(2)) => r = Bits(2)
    /\ (~SizeLeq(z, Bits(2)) /\ IsPowerOfTwo(z)) => r = z
    /\ (~SizeLeq(z, Bits(2)) /\ ~IsPowerOfTwo(z)) =>
          /\ IsPowerOfTwo(r)
          /\ SizeLess(z, r)
          /\ \A q \in PowersOfTwo : SizeLess(z, q) => SizeLeq(r, q)
    /\ IsPowerOfTwo(r)
    /\ SizeLeq(z, r)
    /\ SizeLeq(Bits(2), r)

---------------------------------------------------------------------------
(* Claims about the playback process. *)

\* the callback is inside an invocation that took the zero-fill branch
Underrun == cb_pc = "notify" /\ output = Zeros(data_needed)

\* the step of the callback that can wait for nothing but the counter's bound
CanNotify == io_counter_ < MaxCounter \/ file_io_lock_ = "free"

\* C11: an invocation of the playback callback that finds fewer than
\* frames * channels samples available fills the whole output block with
\* zeros, leaves read_head_ and the storage as they are, and, until it
\* returns, neither changes the output or read_head_ nor has to wait
C11_UnderrunSilence ==
    /\ [][(cb_pc = "idle" /\ cb_pc' # "idle"
            /\ get_read_available < data_needed)
           => (output' = Zeros(data_needed) /\ cb_pc' = "notify"
               /\ UNCHANGED ring_vars)]_vars
    /\ [][Underrun => (output' = output /\ read_head_' = read_head_)]_vars
    /\ [](Underrun /\ CanNotify => ENABLED PlaybackCbNotify)

\* an underrun with the buffer holding one sample, after some were played
C11_Witness ==
    /\ Underrun
    /\ Len(delivered) > 0
    /\ get_read_available > 0 /\ get_read_available < data_needed

\* C12: an invocation of the playback callback that finds at least
\* frames * channels samples available (exactly that many included) calls
\* dequeue, which returns exactly frames * channels samples and advances
\* read_head_ by as many
C12_DeliveryThreshold ==
    /\ [][(cb_pc = "idle" /\ cb_pc' # "idle"
            /\ get_read_available >= data_needed)
           => cb_pc' = "dequeue"]_vars
    /\ [][(cb_pc = "in_dequeue" /\ cb_pc' = "notify")
           => (c_ret' = data_needed
               /\ read_head_' = (read_head_ + data_needed) % capacity)]_vars

\* C13: when an invocation of the playback callback ends, the output block
\* is either frames * channels zeros or frames * channels samples dequeued
\* by that invocation, never fewer samples followed by unwritten positions
C13_AllOrNothing ==
    cb_pc \in {"notify", "idle"}
    => \/ output = Zeros(Len(output))
       \/ /\ \A i \in 1 .. Len(output) : output[i] # Unwritten
          /\ c_ret = Len(output)

\* C15: when start() has ended on a short read, the enqueue of that read
\* accepted every sample read (the last of the accepted samples are that
\* payload, once), and nothing is read or enqueued afterwards
C15_EofPayloadOnce ==
    io_pc = "done"
    => /\ p_ret = Len(p_src)
       /\ Len(p_src) < buffer_len
       /\ SubSeq(accepted, Len(accepted) - p_ret + 1, Len(accepted))
            = SubSeq(p_src, 1, p_ret)
       /\ next_val = file_frames * channels
       /\ p_pc = "idle"

\* the ring holds a staging buffer and a callback period at once, as the
\* source's QUEUE_FACTOR of 128 staging buffers does for every period below
\* 508 times the frame size
RingHoldsBoth == capacity - 1 > buffer_len + data_needed

\* C19: with a finite file, the callback invoked again and again and both
\* threads scheduled fairly, the playback IO thread reaches the read that
\* returns fewer frames than requested and start() returns, the whole file
\* read (the ring being large enough for a staging buffer and a callback
\* period at once)
C19_PlaybackEnds ==
    RingHoldsBoth => <>(io_pc = "done" /\ next_val = file_frames * channels)

\* start() has returned after the thread had to be woken for its reads
C19_Witness ==
    /\ io_pc = "done"
    /\ file_frames > 2 * frames
    /\ Len(delivered) > 0

---------------------------------------------------------------------------
(* Claims about the capture process. *)

\* the capture loop has been left (only a short write leaves it)
LoopLeft == io_pc \in {"waiting", "woken", "done"}

\* C14: in capture, a file write that transfers fewer frames than requested
\* ends the loop with that iteration, and from then on the IO thread
\* dequeues nothing and writes nothing, whatever the callback does
C14_FatalWriteEndsLoop ==
    /\ [][(io_pc = "write" /\ io_pc' # "write"
            /\ Len(file_out') - Len(file_out) < buffer_len)
           => LoopLeft']_vars
    /\ [][LoopLeft => (LoopLeft' /\ file_out' = file_out
                       /\ file_io_buffer_' = file_io_buffer_
                       /\ read_head_' = read_head_ /\ c_pc' = c_pc
                       /\ delivered' = delivered)]_vars

\* the loop was left on a short write and the callback has since queued
\* more than a staging buffer, which nobody drains
C14_Witness ==
    /\ phase = "capture"
    /\ io_pc = "done"
    /\ Len(file_out) % buffer_len # 0
    /\ get_read_available > buffer_len

\* C16: in capture, an iteration of the drain loop that finds no more than
\* a staging buffer available goes to wait on the condition variable,
\* which releases the mutex; it does not go round with the mutex held
C16_IdleWaits ==
    [][(phase = "capture" /\ io_pc = "again" /\ io_pc' # "again")
       => (io_pc' = "waiting" /\ file_io_lock_' = "free")]_vars

\* C20: in capture, every block handed to the file is one staging buffer
\* filled entirely by the dequeue of the same iteration, and the samples
\* written to the file are a prefix of the samples enqueue accepted
C20_FileIsPrefixOfAccepted ==
    phase = "capture"
    => /\ io_pc = "write" => (c_ret = buffer_len /\ file_io_buffer_ = c_dst)
       /\ IsPrefix(file_out, accepted)

---------------------------------------------------------------------------
(* Claims about both processes. *)

\* the states in which a bound of the model keeps the audio thread from
\* its next step
CallbackBounded ==
    \/ phase = "playback" /\ cb_pc = "notify" /\ ~CanNotify
    \/ phase = "capture" /\ cb_pc = "idle"
          /\ next_val + data_needed > MaxCaptured

\* the IO thread holds the mutex and the callback is at its notification
\* with the counter at the threshold
TryLockFails ==
    /\ file_io_lock_ = "io"
    /\ \/ /\ phase = "playback" /\ cb_pc = "notify"
          /\ io_counter_ >= (BUFFER_FACTOR * 3) \div 4
       \/ /\ phase = "capture" /\ cb_pc = "enqueue" /\ p_pc = "idle"
          /\ io_counter_ >= BUFFER_FACTOR

\* C17: in capture and in playback, wherever the IO thread is (holding the
\* mutex, waiting, ended), the audio thread can take its next step: the
\* callback starts its buffer operation and runs to its end without ever
\* waiting for the mutex
C17_CallbackNeverWaits ==
    ~CallbackBounded => ENABLED (PlaybackCallback \/ RecordCallback)

\* the callback gets past a failing try_lock in capture, and in playback
\* with the IO thread inside enqueue
C17_Witness ==
    /\ TryLockFails
    /\ phase = "playback" => io_pc = "enqueue"
    /\ phase = "capture" => io_pc = "in_dequeue"

\* a step of enqueue, of dequeue, of one of the two getters
EnqueueActs == p_pc' # p_pc
DequeueActs == c_pc' # c_pc
GetterActs ==
    \/ io_pc = "check" /\ io_pc' # "check"
    \/ phase = "playback" /\ cb_pc = "idle" /\ cb_pc' # "idle"

\* C18: enqueue never changes read_head_ and dequeue never changes
\* write_head_; dequeue changes no storage slot; get_read_available and
\* get_write_available change neither head nor any storage slot
C18_SingleWriterHeads ==
    /\ [][EnqueueActs => read_head_' = read_head_]_vars
    /\ [][DequeueActs => (write_head_' = write_head_ /\ buffer_' = buffer_)]_vars
    /\ [][GetterActs => UNCHANGED ring_vars]_vars

\* both heads have moved and wrapped storage has been read back
C18_Witness ==
    /\ read_head_ # 0 /\ write_head_ # 0 /\ write_head_ < read_head_
    /\ c_pc = "idle" /\ c_ret > 0
    /\ io_pc = "waiting"

---------------------------------------------------------------------------
(* Claims about the loop of the playback IO thread. *)

\* the IO thread goes to wait, from its test or after an enqueue
GoesToWait == io_pc \in {"check", "enqueue"} /\ io_pc' = "waiting"

---------------------------------------------------------------------------
(* Claims about the notifications. *)

\* the capture callback ends its test of the counter and the mutex
RecordNotifies ==
    phase = "capture" /\ cb_pc = "enqueue" /\ cb_pc' # "enqueue"

\* C22: a capture callback that finds io_counter_ at BUFFER_FACTOR or more
\* and gets the mutex by try_lock resets the counter, releases the mutex
\* and signals once; any other invocation signals nothing, does not try
\* again and leaves the counter one higher
C22_CaptureNotification ==
    /\ [][RecordNotifies
           => IF io_counter_ >= BUFFER_FACTOR /\ file_io_lock_ = "free"
              THEN /\ io_counter_' = 0 /\ file_io_lock_' = "free"
                   /\ cb_pc' = "signal" /\ io_pc' = io_pc
              ELSE /\ io_counter_' = io_counter_ + 1 /\ cb_pc' = "idle"
                   /\ io_pc' = io_pc /\ file_io_lock_' = file_io_lock_]_vars
    /\ [][(cb_pc = "signal" /\ cb_pc' # "signal")
           => (cb_pc' = "idle" /\ io_pc' = notify_one
               /\ io_counter_' = io_counter_)]_vars
    /\ [][(cb_pc # "signal" /\ cb_pc' = "signal") => RecordNotifies]_vars

\* the callback is about to signal a waiting IO thread, after invocations
\* whose try_lock failed
C22_Witness ==
    /\ phase = "capture" /\ cb_pc = "signal" /\ io_pc = "waiting"
    /\ io_counter_ = 0
    /\ Len(accepted) > (BUFFER_FACTOR + 1) * data_needed

\* the playback callback ends its test of the counter and the mutex
PlaybackNotifies ==
    phase = "playback" /\ cb_pc = "notify" /\ cb_pc' # "notify"

PlaybackThreshold == (BUFFER_FACTOR * 3) \div 4

\* C23: after its dequeue or zero-fill the playback callback signals
\* exactly when io_counter_ is at BUFFER_FACTOR * 3 / 4 = 3 or more and
\* try_lock succeeds, and then the counter is 0 and the mutex free again;
\* otherwise it signals nothing and the counter is one higher.  With the
\* mutex free at every attempt the counter never passes 3, so the signal
\* comes with every 4th invocation, underrun or not
C23_PlaybackNotification ==
    /\ [][PlaybackNotifies
           => /\ cb_pc' = "idle" /\ file_io_lock_' = file_io_lock_
              /\ UNCHANGED <<ring_vars, output>>
              /\ IF io_counter_ >= PlaybackThreshold /\ file_io_lock_ = "free"
                 THEN io_counter_' = 0 /\ io_pc' = notify_one
                 ELSE io_counter_' = io_counter_ + 1 /\ io_pc' = io_pc]_vars
    /\ [][(PlaybackNotifies /\ file_io_lock_ = "free")
           => (io_counter_' = 0) = (io_counter_ >= PlaybackThreshold)]_vars
    /\ [][(io_pc = "waiting" /\ io_pc' = "woken" /\ cb_pc' # cb_pc)
           => PlaybackNotifies]_vars

\* an underrun invocation has just woken the IO thread
C23_Witness ==
    /\ phase = "playback" /\ cb_pc = "idle" /\ io_counter_ = 0
    /\ io_pc = "woken"
    /\ output = Zeros(data_needed) /\ Len(delivered) > 0

---------------------------------------------------------------------------
(* Claims about the heads and the assertions of the buffer. *)

\* the two assertions of compute_read_available, for the heads r and w
AssertionsHold(r, w) ==
    /\ is_pow2(Bits(capacity))
    /\ compute_read_available(r, w, capacity) < capacity

\* C24: in every state the producer and the consumer can reach by any
\* interleaving of the steps of enqueue and dequeue, both heads lie in
\* 0 .. capacity - 1, the capacity is a power of two, and the assertions of
\* compute_read_available hold for the heads as they are and as either
\* call in flight has loaded them
C24_HeadsInRange ==
    /\ read_head_ \in 0 .. capacity - 1
    /\ write_head_ \in 0 .. capacity - 1
    /\ AssertionsHold(read_head_, write_head_)
    /\ p_pc # "idle" => AssertionsHold(p_read_start, p_write_start)
    /\ c_pc # "idle" => AssertionsHold(c_read_start, c_write_start)

\* both calls are about to store a head they computed from the heads of a
\* wrapped buffer, the write head having passed the end of the storage
C24_Witness ==
    /\ phase = "free" /\ capacity = 4
    /\ p_pc = "store" /\ c_pc = "store"
    /\ write_head_ < read_head_ /\ Len(accepted) > capacity

---------------------------------------------------------------------------
(* Claims about the samples on their way through the playback ring. *)

\* C25: the playback IO thread never drops file data at the ring: whenever
\* an enqueue of the IO thread returns, it has accepted every sample the
\* file read before it returned
C25_NoDropAtRing ==
    [][(phase = "playback" /\ p_pc = "store" /\ p_pc' = "idle")
        => (p_ret' = Len(p_src)
            /\ accepted' = accepted \o p_src)]_vars

\* the samples of the file that follow the ones the callback has been given
NextOfFile(n) == [i \in 1 .. n |-> Len(delivered) + i]

\* C26: the output blocks the playback callback fills from the ring are, in
\* order, the consecutive samples of the file: every block that is not a
\* whole period of silence holds the data_needed samples that follow the
\* ones played before it, none skipped, repeated, stale or out of order
C26_StreamIntegrity ==
    [][(phase = "playback" /\ cb_pc = "in_dequeue" /\ cb_pc' = "notify")
        => output' = NextOfFile(data_needed)]_vars

\* C27: playback plays the whole file: when start() has returned on the
\* end of the file and the stream has been closed, every sample the IO
\* thread enqueued has been dequeued by the callback and the ring is empty
C27_WholeFilePlayed ==
    (phase = "playback" /\ cb_pc = "closed")
        => (delivered = accepted /\ read_head_ = write_head_)

---------------------------------------------------------------------------
(* Claims about the wake-ups. *)

\* the playback callback resets the counter and calls notify_one
PlaybackSignals ==
    /\ phase = "playback"
    /\ cb_pc = "notify" /\ cb_pc' = "idle" /\ io_counter_' = 0

\* start() has locked the mutex and its loop has not ended
InPlaybackLoop == phase = "playback" /\ io_pc \notin {"start", "done"}

\* the IO thread is between its test of write_available() and its wait
BetweenCheckAndWait == io_pc \in {"check", "read", "enqueue"}

\* C28: no wake-up is lost in playback: while start() is in its loop the
\* IO thread holds the mutex from its test of write_available() until it
\* waits; the callback signals only with the mutex in its own hands, hence
\* only while the IO thread is inside wait() and never between the test
\* and the wait; and after every such signal the IO thread is on its way
\* out of wait()
C28_NoLostWakeup ==
    /\ [](phase = "playback" /\ BetweenCheckAndWait => file_io_lock_ = "io")
    /\ [][PlaybackSignals
           => (file_io_lock_ = "free" /\ file_io_lock_' = "free")]_vars
    /\ [][(PlaybackSignals /\ InPlaybackLoop)
           => (~BetweenCheckAndWait /\ io_pc \in {"waiting", "woken"}
               /\ io_pc' = "woken")]_vars

\* the callback has just signalled after a full block, the IO thread has
\* left its wait for a second read
C28_Witness ==
    /\ phase = "playback" /\ io_pc = "woken" /\ cb_pc = "idle"
    /\ io_counter_ = 0 /\ output # Zeros(data_needed)
    /\ Len(delivered) >= PlaybackThreshold * data_needed
    /\ next_val < file_frames * channels

---------------------------------------------------------------------------
(* Claims about the end of a capture. *)

\* the IO thread is inside the drain loop of start()
InDrainLoop ==
    io_pc \in {"check", "again", "dequeue", "in_dequeue", "write"}

\* the callback's try_lock succeeds
RecordTryLockSucceeds ==
    phase = "capture" /\ cb_pc = "enqueue" /\ cb_pc' = "signal"

\* the callback calls notify_one
RecordSignals ==
    phase = "capture" /\ cb_pc = "signal" /\ cb_pc' = "idle"

\* the invocations of the callback that are enough for a signal: four
\* that raise the counter to BUFFER_FACTOR and the one that finds it there
WakeInvocations == BUFFER_FACTOR + 1

\* the drain loop has ended on a short write and the driver has that many
\* invocations to go
WaitsAfterFatalWrite ==
    /\ phase = "capture" /\ io_pc = "waiting"
    /\ next_val + WakeInvocations * data_needed <= MaxCaptured

\* after the drain loop has ended on a short write, start() returns
StartReturns == WaitsAfterFatalWrite ~> (io_pc = "done")

\* the IO thread holds the mutex all through the drain loop
LoopHoldsMutex == [](phase = "capture" /\ InDrainLoop => file_io_lock_ = "io")

\* C29 as stated: after the drain loop has ended on a short write, start()
\* returns, provided the callback keeps being invoked; the IO thread holds
\* the mutex all through the drain loop, and the callback issues no
\* signal while the loop runs
C29_NoSignalInLoop ==
    /\ StartReturns
    /\ LoopHoldsMutex
    /\ [][RecordSignals => ~InDrainLoop]_vars

\* C29, amended: after the drain loop has ended on a short write, start()
\* returns, provided the callback keeps being invoked; the IO thread holds
\* the mutex all through the drain loop, so no try_lock of the callback
\* succeeds while the loop runs; a signal issued while the loop runs (its
\* try_lock succeeded before start() locked the mutex) wakes nobody
C29_ShutdownAfterFatalWrite ==
    /\ StartReturns
    /\ LoopHoldsMutex
    /\ [][RecordTryLockSucceeds => ~InDrainLoop]_vars
    /\ [][(RecordSignals /\ InDrainLoop) => io_pc' = io_pc]_vars

\* start() has returned after a short write, woken by a signal of the
\* callback whose counter had passed the threshold during the loop
C29_Witness ==
    /\ phase = "capture" /\ io_pc = "done" /\ cb_pc = "idle"
    /\ io_counter_ = 0
    /\ Len(accepted) > (BUFFER_FACTOR + 2) * data_needed
    /\ Len(file_out) < Len(delivered)

====
